---- MODULE Spec2Model ----
(***************************************************************************)
(* Model of the data-quality cleaning engine of claims-risk-analyzer:      *)
(* helpers.handle_numeric_outliers and the part of app.main that drives it *)
(* from the sidebar inputs.                                                *)
(*                                                                         *)
(* A table (pandas DataFrame) is a record [cols, rows]; a row carries its  *)
(* index label idx and a function c from column names to cells.  A cell is *)
(* a record [k, v]: k = "num" a float, k = "str" a text that parses as the *)
(* number v, k = "text" a text that does not parse, k = "nan" a missing    *)
(* value.  Numbers are exact rationals [n, d] in lowest terms, d > 0.      *)
(***************************************************************************)
EXTENDS Integers, Sequences, FiniteSets, TLC

VARIABLES df, pc, args, ret, locals, ret2, via, st_error, app_df

vars == <<df, pc, args, ret, locals, ret2, via, st_error, app_df>>

----------------------------------------------------------------------------
(* Bounds of the model *)

MaxRows == 3

MaxVal == 3

\* rows of the tables whose two columns are cleaned one after the other
MaxRows2 == 2

\* rows of the tables searched for repeated values
MaxRowsDup == 4

\* rows of the tables that are scored
MaxRowsScore == 3

\* rows of the caller-held tables passed to each function
MaxRowsAlias == 2

\* rows of the scored tables that hold unparsable cells
MaxRowsText == 2

\* columns of the frames whose headers are coalesced
MaxCols == 3

\* rows of the tables loaded into the app
MaxRowsApp == 3

\* distinct texts a source file may hold before the installer runs
MaxTexts == 3

----------------------------------------------------------------------------
(* Exact arithmetic standing for Python/numpy floats *)

Abs(x) == IF x < 0 THEN -x ELSE x

RECURSIVE GCD(_, _)
GCD(a, b) == IF b = 0 THEN a ELSE GCD(b, a % b)

Rat(n, d) ==
    LET g == GCD(Abs(n), d)
    IN  [n |-> n \div g, d |-> d \div g]

Zero == Rat(0, 1)

FromInt(i) == Rat(i, 1)

RLe(a, b) == a.n * b.d <= b.n * a.d

RAdd(a, b) == Rat(a.n * b.d + b.n * a.d, a.d * b.d)

RDivInt(a, k) == Rat(a.n, a.d * k)

----------------------------------------------------------------------------
(* Cells and optional values *)

Num(r) == [k |-> "num", v |-> r]

NumStr(r) == [k |-> "str", v |-> r]

Text == [k |-> "text", v |-> Zero]

NaN == [k |-> "nan", v |-> Zero]

None == [k |-> "none", v |-> Zero]

NegInf == [k |-> "ninf", v |-> Zero]

PosInf == [k |-> "pinf", v |-> Zero]

\* x <= y on floats extended with -inf, +inf; any comparison with NaN is False
FloatLe(x, y) ==
    /\ x.k # "nan"
    /\ y.k # "nan"
    /\ \/ x.k = "ninf"
       \/ y.k = "pinf"
       \/ x.k = "num" /\ y.k = "num" /\ RLe(x.v, y.v)

isfinite(x) == x.k = "num"

notna(x) == x.k # "nan"

\* pd.to_numeric(s, errors="coerce") on one cell
to_numeric(x) ==
    CASE x.k = "num" -> x
      [] x.k = "str" -> Num(x.v)
      [] OTHER -> NaN

----------------------------------------------------------------------------
(* Series and tables *)

\* df[column]: the cells of one column, in row order
ColumnOf(rows, column) == [i \in 1..Len(rows) |-> rows[i].c[column]]

\* _to_float_series: coerce a series to float, failures become NaN
to_float_series(s) == [i \in DOMAIN s |-> to_numeric(s[i])]

\* out[column] = s
SetColumn(rows, column, s) ==
    [i \in 1..Len(rows) |-> [rows[i] EXCEPT !.c[column] = s[i]]]

\* out[keep]: boolean-mask row selection, positional, order preserved
RECURSIVE SelectRows(_, _)
SelectRows(rows, keep) ==
    IF Len(rows) = 0 THEN << >>
    ELSE LET rest == SelectRows(Tail(rows), Tail(keep))
         IN  IF Head(keep) THEN <<Head(rows)>> \o rest ELSE rest

RECURSIVE SumSeq(_)
SumSeq(s) == IF Len(s) = 0 THEN Zero ELSE RAdd(Head(s).v, SumSeq(Tail(s)))

\* Series.mean() of a non-empty float series without NaN
Mean(s) == RDivInt(SumSeq(s), Len(s))

\* a rounding that sends every tie upwards (round-half-up)
round_half_up(x) == (2 * x.n + x.d) \div (2 * x.d)

\* Python round(x) of a float: nearest integer, ties to the even integer
round(x) ==
    LET f == x.n \div x.d
        twice == 2 * (x.n - f * x.d)
    IN  IF twice < x.d THEN f
        ELSE IF twice > x.d THEN f + 1
        ELSE IF f % 2 = 0 THEN f ELSE f + 1

----------------------------------------------------------------------------
(* helpers.handle_numeric_outliers *)

Lo(min_val) == IF min_val = None THEN NegInf ELSE Num(min_val.v)

Hi(max_val) == IF max_val = None THEN PosInf ELSE Num(max_val.v)

ValidMask(s, lo, hi) ==
    [i \in DOMAIN s |-> FloatLe(lo, s[i]) /\ FloatLe(s[i], hi) /\ notna(s[i])]

Affected(s, valid_mask) ==
    Cardinality({i \in DOMAIN s : ~valid_mask[i] /\ notna(s[i])})

\* an absent column answered with an empty table
AbsentColumnResult_Empty(d) ==
    [df |-> [d EXCEPT !.rows = << >>], affected |-> 0, imputed_value |-> None,
     raised |-> FALSE]

\* return df.copy(), 0, None
AbsentColumnResult(d) ==
    [df |-> d, affected |-> 0, imputed_value |-> None, raised |-> FALSE]

\* a row filter that forgets the rows with missing values: out[valid_mask]
ExcludeRows_DropMissing(rows, s, valid_mask) == SelectRows(rows, valid_mask)

\* a row filter that returns the survivors last-first
ExcludeRows_Reversed(rows, s, valid_mask) ==
    LET kept == SelectRows(rows, [i \in DOMAIN s |-> valid_mask[i] \/ ~notna(s[i])])
    IN  [j \in 1..Len(kept) |-> kept[Len(kept) + 1 - j]]

\* out[valid_mask | out[column].isna()].copy()
ExcludeRows(rows, s, valid_mask) ==
    SelectRows(rows, [i \in DOMAIN s |-> valid_mask[i] \/ ~notna(s[i])])

\* a mean taken over every non-missing value: out.loc[out[column].notna(), column]
ValidValues_AllPresent(s, valid_mask) ==
    SelectRows(s, [i \in DOMAIN s |-> notna(s[i])])

\* valid_values = out.loc[valid_mask, column]
ValidValues(s, valid_mask) == SelectRows(s, valid_mask)

\* the imputed value before rounding
ImputedRaw(valid_values, lo, hi) ==
    IF Len(valid_values) = 0
    THEN IF isfinite(lo) /\ isfinite(hi)
         THEN RDivInt(RAdd(lo.v, hi.v), 2)
         ELSE Zero
    ELSE Mean(valid_values)

ImputedValue(raw, round_to_int) ==
    IF round_to_int THEN FromInt(round(raw)) ELSE raw

\* an assignment through the mask instead of its negation
ImputeRows_ValidMask(rows, column, s, valid_mask, imputed_value) ==
    SetColumn(rows, column,
              [i \in DOMAIN s |-> IF valid_mask[i] THEN Num(imputed_value) ELSE s[i]])

\* an assignment that forgets the column: out.loc[~valid_mask] = imputed_value
ImputeRows_WholeRow(rows, column, s, valid_mask, imputed_value) ==
    [i \in 1..Len(rows) |->
        IF ~valid_mask[i]
        THEN [rows[i] EXCEPT !.c = [col \in DOMAIN rows[i].c |-> Num(imputed_value)]]
        ELSE [rows[i] EXCEPT !.c[column] = s[i]]]

\* out.loc[~valid_mask, column] = imputed_value
ImputeRows(rows, column, s, valid_mask, imputed_value) ==
    SetColumn(rows, column,
              [i \in DOMAIN s |-> IF ~valid_mask[i] THEN Num(imputed_value) ELSE s[i]])

handle_numeric_outliers(d, column, method, min_val, max_val, round_to_int) ==
    IF column \notin d.cols THEN AbsentColumnResult(d)
    ELSE
    LET s == to_float_series(ColumnOf(d.rows, column))
        out == SetColumn(d.rows, column, s)
        lo == Lo(min_val)
        hi == Hi(max_val)
        valid_mask == ValidMask(s, lo, hi)
        affected == Affected(s, valid_mask)
        imputed_value ==
            ImputedValue(ImputedRaw(ValidValues(s, valid_mask), lo, hi), round_to_int)
    IN  IF affected = 0
        THEN [df |-> [d EXCEPT !.rows = out], affected |-> 0,
              imputed_value |-> None, raised |-> FALSE]
        ELSE IF method = "leave"
        THEN [df |-> [d EXCEPT !.rows = out], affected |-> affected,
              imputed_value |-> None, raised |-> FALSE]
        ELSE IF method = "exclude"
        THEN [df |-> [d EXCEPT !.rows = ExcludeRows(out, s, valid_mask)],
              affected |-> affected, imputed_value |-> None, raised |-> FALSE]
        ELSE [df |-> [d EXCEPT !.rows =
                        ImputeRows(out, column, s, valid_mask, imputed_value)],
              affected |-> affected, imputed_value |-> Num(imputed_value),
              raised |-> FALSE]

\* the value of the local imputed_value after line 231, before the rounding of
\* line 234; None when the call returns before reaching line 222
ImputedRawOf(d, column, method, min_val, max_val) ==
    IF column \notin d.cols THEN None
    ELSE LET s == to_float_series(ColumnOf(d.rows, column))
             valid_mask == ValidMask(s, Lo(min_val), Hi(max_val))
         IN  IF Affected(s, valid_mask) = 0 \/ method \in {"leave", "exclude"}
             THEN None
             ELSE Num(ImputedRaw(ValidValues(s, valid_mask),
                                 Lo(min_val), Hi(max_val)))

----------------------------------------------------------------------------
(* Inputs *)

Columns == {"age", "annual_income"}

Methods == {"impute_mean", "exclude", "leave"}

\* the policy names a caller may pass: the three documented ones and another
MethodNames == Methods \cup {"drop"}

AgeCells ==
    {Num(FromInt(i)) : i \in 0..MaxVal} \cup {NumStr(FromInt(2)), Text, NaN}

\* the annual_income cell of the row labelled i
IncomeCellAt(i) == IF i % 2 = 0 THEN Num(FromInt(1)) ELSE Text

CellsOf(col, i) == IF col = "age" THEN AgeCells ELSE {IncomeCellAt(i)}

BoundVals == {None, Num(FromInt(1)), Num(FromInt(2))}

RowCells(cols, i) == {c \in [cols -> AgeCells \cup {IncomeCellAt(i)}] :
                        \A col \in cols : c[col] \in CellsOf(col, i)}

\* a freshly loaded table has the RangeIndex 0..n-1 as row labels
Tables ==
    UNION {
      UNION { {[cols |-> cols,
                rows |-> [i \in 1..n |-> [idx |-> i - 1, c |-> cs[i]]]] :
                 cs \in {f \in [1..n -> UNION {RowCells(cols, j) : j \in 0..n}] :
                           \A i \in 1..n : f[i] \in RowCells(cols, i - 1)}}
              : n \in 0..MaxRows }
      : cols \in (SUBSET Columns) \ {{}} }

EmptyTable == [cols |-> {}, rows |-> << >>]

NoArgs == [column |-> "", method |-> "", min_val |-> None, max_val |-> None,
           round_to_int |-> FALSE]

NoResult == [df |-> EmptyTable, affected |-> 0, imputed_value |-> None,
             raised |-> FALSE]

----------------------------------------------------------------------------
(* The state machine *)

Init ==
    /\ df \in Tables
    /\ pc = "ready"
    /\ args = NoArgs
    /\ ret = NoResult
    /\ locals = [imputed_raw |-> None]
    /\ ret2 = NoResult
    /\ via = ""
    /\ st_error = FALSE
    /\ app_df = df

\* a direct call of handle_numeric_outliers on the caller's table
Call(column, method, min_val, max_val, round_to_int) ==
    /\ pc = "ready"
    /\ pc' = "called"
    /\ via' = "direct"
    /\ args' = [column |-> column, method |-> method, min_val |-> min_val,
                max_val |-> max_val, round_to_int |-> round_to_int]
    /\ ret' = handle_numeric_outliers(df, column, method, min_val, max_val,
                                      round_to_int)
    /\ locals' = [imputed_raw |->
                    ImputedRawOf(df, column, method, min_val, max_val)]
    /\ UNCHANGED <<df, ret2, st_error, app_df>>

\* a second call on the table returned by the first, with the same arguments
Rerun ==
    /\ pc = "called"
    /\ via = "direct"
    /\ pc' = "recalled"
    /\ ret2' = handle_numeric_outliers(ret.df, args.column, args.method,
                                       args.min_val, args.max_val,
                                       args.round_to_int)
    /\ UNCHANGED <<df, args, ret, locals, via, st_error, app_df>>

method_map(label) ==
    CASE label = "Impute mean" -> "impute_mean"
      [] label = "Exclude rows" -> "exclude"
      [] label = "Leave as-is" -> "leave"
      [] OTHER -> "impute_mean"

MethodLabels == {"Impute mean", "Exclude rows", "Leave as-is"}

\* app.main: the age validation sidebar followed by the cleaning of the age
\* column; st.error reports age_min >= age_max and the script goes on
CleanAge(age_method, age_min, age_max) ==
    /\ pc = "ready"
    /\ pc' = "called"
    /\ via' = "app"
    /\ st_error' = FloatLe(age_max, age_min)
    /\ args' = [column |-> "age", method |-> method_map(age_method),
                min_val |-> age_min, max_val |-> age_max,
                round_to_int |-> TRUE]
    /\ ret' = handle_numeric_outliers(app_df, "age", method_map(age_method),
                                      age_min, age_max, TRUE)
    /\ app_df' = ret'.df
    /\ locals' = [imputed_raw |->
                    ImputedRawOf(app_df, "age", method_map(age_method),
                                 age_min, age_max)]
    /\ UNCHANGED <<df, ret2>>

Next ==
    \/ \E column \in Columns, method \in MethodNames,
          min_val \in BoundVals, max_val \in BoundVals,
          round_to_int \in BOOLEAN :
          Call(column, method, min_val, max_val, round_to_int)
    \/ Rerun
    \/ \E age_method \in MethodLabels,
          age_min \in BoundVals \ {None}, age_max \in BoundVals \ {None} :
          CleanAge(age_method, age_min, age_max)

Spec == Init /\ [][Next]_vars

----------------------------------------------------------------------------
(* Vocabulary of the properties of handle_numeric_outliers: the call under *)
(* observation took the table df and the arguments args, and returned ret. *)

Called == pc # "ready"

ColumnPresent == args.column \in df.cols

\* the cell of input row i in the cleaned column, after numeric coercion
InCell(i) == to_numeric(df.rows[i].c[args.column])

\* the cell of output row j in the cleaned column
OutCell(j) == ret.df.rows[j].c[args.column]

InRange(v) ==
    /\ args.min_val = None \/ RLe(args.min_val.v, v)
    /\ args.max_val = None \/ RLe(v, args.max_val.v)

IsMissing(i) == InCell(i).k = "nan"

IsValid(i) == InCell(i).k = "num" /\ InRange(InCell(i).v)

IsInvalid(i) == InCell(i).k = "num" /\ ~InRange(InCell(i).v)

InRows == 1..Len(df.rows)

OutRows == 1..Len(ret.df.rows)

InvalidRows == {i \in InRows : IsInvalid(i)}

ValidRows == {i \in InRows : IsValid(i)}

\* C1: with method "exclude" every non-missing value of the column in the
\* returned table lies in [lo,hi], the row count is the input row count minus
\* the number of invalid values, and every row whose value was missing is
\* still present (and still missing).
C1_ExcludeContract ==
    (Called /\ ColumnPresent /\ args.method = "exclude") =>
        /\ \A j \in OutRows :
              OutCell(j).k = "nan" \/ (OutCell(j).k = "num" /\ InRange(OutCell(j).v))
        /\ Len(ret.df.rows) = Len(df.rows) - Cardinality(InvalidRows)
        /\ \A i \in InRows : IsMissing(i) =>
              \E j \in OutRows : /\ ret.df.rows[j].idx = df.rows[i].idx
                                 /\ OutCell(j).k = "nan"

C1_Witness ==
    /\ Called /\ ColumnPresent /\ args.method = "exclude"
    /\ InvalidRows # {}
    /\ ValidRows # {}
    /\ \E i \in InRows : IsMissing(i)
    /\ Len(ret.df.rows) = Len(df.rows) - 1

\* C2: with method "impute_mean" every previously-invalid cell equals the
\* single reported imputed_value and every valid cell keeps its (coerced)
\* value.
C2_ImputeContract ==
    (Called /\ ColumnPresent /\ args.method = "impute_mean") =>
        /\ Len(ret.df.rows) = Len(df.rows)
        /\ \A i \in InRows :
              /\ IsInvalid(i) => OutCell(i) = ret.imputed_value
              /\ IsValid(i) => OutCell(i) = InCell(i)

C2_Witness ==
    /\ Called /\ ColumnPresent /\ args.method = "impute_mean"
    /\ Cardinality(InvalidRows) >= 2
    /\ ValidRows # {}
    /\ \A i \in InvalidRows : OutCell(i) = ret.imputed_value /\ OutCell(i) # InCell(i)

\* C3 (as claimed): under every policy a cell that is missing after coercion
\* is not counted in affected_count and is still missing in the returned
\* table.
C3_MissingNeverAltered ==
    (Called /\ ColumnPresent /\ args.method \in Methods) =>
        /\ ret.affected = Cardinality(InvalidRows)
        /\ \A i \in InRows : IsMissing(i) =>
              \A j \in OutRows : ret.df.rows[j].idx = df.rows[i].idx =>
                                    OutCell(j).k = "nan"

\* C4 (as claimed): re-running "exclude" or "impute_mean" on the call's own
\* output with the same arguments reports affected_count = 0.
C4_RerunAffectsNothing ==
    (pc = "recalled" /\ args.method \in {"exclude", "impute_mean"}) =>
        ret2.affected = 0

\* C5 (as claimed): with method "leave" the returned table is the input table,
\* cell for cell.
C5_LeaveIsIdentity ==
    (Called /\ args.method = "leave") => ret.df = df

BoundsInvalid ==
    /\ args.min_val # None
    /\ args.max_val # None
    /\ RLe(args.max_val.v, args.min_val.v)

\* C6 (as claimed): a call with min bound >= max bound is rejected before
\* cleaning runs, called directly or from the app sidebar.
C6_InvalidBoundsRejected ==
    (Called /\ ColumnPresent /\ BoundsInvalid) => ret.raised

\* C7 (as claimed): a call with an unknown policy name raises an error and
\* modifies no value.
C7_UnknownPolicyRejected ==
    (Called /\ ColumnPresent /\ args.method \notin Methods) =>
        /\ ret.raised
        /\ \A i \in InRows : i \in OutRows /\ OutCell(i) = InCell(i)

\* C8: if the column is absent the call returns the input table unchanged,
\* affected_count = 0 and imputed_value = None, under every policy and
\* without raising.
C8_AbsentColumnNoOp ==
    (Called /\ ~ColumnPresent) =>
        /\ ret.df = df
        /\ ret.affected = 0
        /\ ret.imputed_value = None
        /\ ~ret.raised

C8_Witness ==
    /\ Called /\ ~ColumnPresent
    /\ Len(df.rows) = MaxRows
    /\ args.method = "impute_mean"
    /\ \E i \in InRows : df.rows[i].c["age"] = Text

RECURSIVE SumOfRows(_)
SumOfRows(S) ==
    IF S = {} THEN 0
    ELSE LET i == CHOOSE x \in S : TRUE
         IN  InCell(i).v.n + SumOfRows(S \ {i})

\* C9: under impute_mean with at least one invalid value, the imputed value
\* before rounding is the arithmetic mean of the valid values; with no valid
\* value it is (min+max)/2 when both bounds are finite and 0 otherwise.
\* (Input cells are integers, so the mean m satisfies m * count = sum.)
C9_ImputedIsMeanOrFallback ==
    (Called /\ ColumnPresent /\ args.method = "impute_mean" /\ InvalidRows # {}) =>
        /\ locals.imputed_raw.k = "num"
        /\ LET m == locals.imputed_raw.v
           IN  IF ValidRows # {}
               THEN m.n * Cardinality(ValidRows) = m.d * SumOfRows(ValidRows)
               ELSE IF args.min_val # None /\ args.max_val # None
               THEN 2 * m.n * args.min_val.v.d * args.max_val.v.d =
                       m.d * (args.min_val.v.n * args.max_val.v.d
                              + args.max_val.v.n * args.min_val.v.d)
               ELSE m.n = 0
        /\ ~args.round_to_int => ret.imputed_value = locals.imputed_raw

C9_Witness ==
    /\ Called /\ ColumnPresent /\ args.method = "impute_mean"
    /\ InvalidRows # {}
    /\ Cardinality(ValidRows) = 2
    /\ locals.imputed_raw.v.d = 2
    /\ ~args.round_to_int
    /\ ret.imputed_value = locals.imputed_raw

\* C10: with round_to_int the imputed value is the integer nearest to the
\* unrounded one, a tie going to the even integer, and that one value is
\* reported and written to every affected row.
C10_RoundHalfEven ==
    (Called /\ ColumnPresent /\ args.method = "impute_mean" /\ args.round_to_int
       /\ InvalidRows # {}) =>
        /\ ret.imputed_value.k = "num"
        /\ ret.imputed_value.v.d = 1
        /\ LET m == locals.imputed_raw.v
               r == ret.imputed_value.v.n
               dist2 == 2 * Abs(r * m.d - m.n)
           IN  /\ dist2 <= m.d
               /\ dist2 = m.d => r % 2 = 0
        /\ \A i \in InvalidRows : OutCell(i) = ret.imputed_value

C10_Witness ==
    /\ Called /\ ColumnPresent /\ args.method = "impute_mean" /\ args.round_to_int
    /\ InvalidRows # {}
    /\ locals.imputed_raw.v.d = 2
    /\ 2 * ret.imputed_value.v.n < locals.imputed_raw.v.n
    /\ \A i \in InvalidRows : OutCell(i) = ret.imputed_value

\* C11 (as claimed): if no non-missing value lies outside the range the call
\* is a no-op under every policy: the returned table has the rows and the cell
\* values of the input, and imputed_value is None.
C11_NothingAffectedIsNoOp ==
    (Called /\ ColumnPresent /\ InvalidRows = {}) =>
        /\ ret.affected = 0
        /\ ret.imputed_value = None
        /\ ret.df = df

\* C13: with method "exclude" the surviving rows appear in the order of the
\* input: the row labels of the output are strictly increasing, as in the
\* input, and every output row is the input row of that label (with the
\* cleaned column coerced).
C13_ExcludeKeepsOrder ==
    (Called /\ ColumnPresent /\ args.method = "exclude") =>
        /\ \A j \in OutRows :
              \E i \in InRows :
                 ret.df.rows[j] = [df.rows[i] EXCEPT !.c[args.column] = InCell(i)]
        /\ \A j, k \in OutRows :
              j < k => ret.df.rows[j].idx < ret.df.rows[k].idx

C13_Witness ==
    /\ Called /\ ColumnPresent /\ args.method = "exclude"
    /\ Len(df.rows) = 3
    /\ IsInvalid(2)
    /\ Len(ret.df.rows) = 2
    /\ ret.df.rows[1].idx = 0
    /\ ret.df.rows[2].idx = 2

----------------------------------------------------------------------------
(* Two columns cleaned one after the other, in both orders.  Specification *)
(* SpecCols: the caller cleans age and then annual_income (the order of    *)
(* app.main), and, from the same input table, annual_income and then age.  *)
(* ret holds the results of the first order, ret2 those of the second.     *)

ColCells == {Num(FromInt(0)), Num(FromInt(1)), Num(FromInt(2)), NaN}

Tables2 ==
    UNION { {[cols |-> Columns,
              rows |-> [i \in 1..n |-> [idx |-> i - 1, c |-> cs[i]]]] :
               cs \in [1..n -> [Columns -> ColCells]]} : n \in 0..MaxRows2 }

\* the bounds of both columns in this specification
ColMin == Num(FromInt(1))

ColMax == Num(FromInt(2))

CleanColumn(d, column, method) ==
    handle_numeric_outliers(d, column, method, ColMin, ColMax, TRUE)

InitCols ==
    /\ df \in Tables2
    /\ pc = "ready"
    /\ args = [age |-> "", annual_income |-> ""]
    /\ ret = << >>
    /\ ret2 = << >>
    /\ locals = [imputed_raw |-> None]
    /\ via = ""
    /\ st_error = FALSE
    /\ app_df = EmptyTable

\* app.py:230: the age column is cleaned first
CleanAgeFirst(age_method, income_method) ==
    /\ pc = "ready"
    /\ pc' = "age_cleaned"
    /\ args' = [age |-> age_method, annual_income |-> income_method]
    /\ ret' = <<CleanColumn(df, "age", age_method)>>
    /\ UNCHANGED <<df, ret2, locals, via, st_error, app_df>>

\* app.py:252: then the income column, on the table the first call returned
ThenIncome ==
    /\ pc = "age_cleaned"
    /\ pc' = "age_income_cleaned"
    /\ ret' = Append(ret, CleanColumn(ret[1].df, "annual_income", args.annual_income))
    /\ UNCHANGED <<df, args, ret2, locals, via, st_error, app_df>>

\* the other order, from the same input table
CleanIncomeFirst ==
    /\ pc = "age_income_cleaned"
    /\ pc' = "income_cleaned"
    /\ ret2' = <<CleanColumn(df, "annual_income", args.annual_income)>>
    /\ UNCHANGED <<df, args, ret, locals, via, st_error, app_df>>

ThenAge ==
    /\ pc = "income_cleaned"
    /\ pc' = "both_orders_done"
    /\ ret2' = Append(ret2, CleanColumn(ret2[1].df, "age", args.age))
    /\ UNCHANGED <<df, args, ret, locals, via, st_error, app_df>>

NextCols ==
    \/ \E age_method \in Methods, income_method \in Methods :
          CleanAgeFirst(age_method, income_method)
    \/ ThenIncome
    \/ CleanIncomeFirst
    \/ ThenAge

SpecCols == InitCols /\ [][NextCols]_vars

\* the two orders agree on the final table and on what is reported per column
OrdersAgree ==
    /\ ret[2].df = ret2[2].df
    /\ ret[1].affected = ret2[2].affected
    /\ ret[1].imputed_value = ret2[2].imputed_value
    /\ ret[2].affected = ret2[1].affected
    /\ ret[2].imputed_value = ret2[1].imputed_value

\* C14 (as claimed): for any policies, cleaning age then annual_income yields
\* the same final table and the same (affected_count, imputed_value) per column
\* as cleaning annual_income then age.
C14_OrderIrrelevant == (pc = "both_orders_done") => OrdersAgree

\* C14 (amended): the two orders agree whenever no row is removed, that is,
\* when no column is cleaned with "exclude" while it holds an out-of-range
\* value.
C14_OrderIrrelevantWithoutRemoval ==
    (pc = "both_orders_done" /\ Len(ret[2].df.rows) = Len(df.rows)) => OrdersAgree

C14_Witness ==
    /\ pc = "both_orders_done"
    /\ Len(ret[2].df.rows) = Len(df.rows)
    /\ args.age = "impute_mean"
    /\ args.annual_income = "impute_mean"
    /\ ret[1].affected > 0
    /\ ret[2].affected > 0
    /\ ret[1].imputed_value # ret[2].imputed_value
    /\ OrdersAgree

----------------------------------------------------------------------------
(* helpers.detect_suspicious_duplicates.  A mask (boolean Series) is a     *)
(* sequence of records [idx, v], one per row label.                        *)

\* x == y on floats: NaN equals nothing
FloatEq(x, y) == x.k = "num" /\ y.k = "num" /\ x.v = y.v

\* pd.Series(False, index=df.index)
FalseMask(rows) == [i \in 1..Len(rows) |-> [idx |-> rows[i].idx, v |-> FALSE]]

\* values.value_counts(): the count of every distinct non-missing value
value_counts(values) ==
    [val \in {values[i] : i \in {j \in DOMAIN values : notna(values[j])}} |->
        Cardinality({i \in DOMAIN values : FloatEq(values[i], val)})]

\* value_counts[value_counts >= min_occurrences].index.tolist()
FrequentValues(counts, min_occurrences) ==
    {val \in DOMAIN counts : counts[val] >= min_occurrences}

\* the digits that follow the point of f"{val:.10f}".rstrip('0'), for a
\* fractional part frac that has at most 10 decimal digits
RECURSIVE FractionDigits(_, _)
FractionDigits(frac, k) ==
    IF frac.n = 0 \/ k = 10 THEN k
    ELSE LET t == Rat(frac.n * 10, frac.d)
         IN  FractionDigits(Rat(t.n - (t.n \div t.d) * t.d, t.d), k + 1)

\* len(val_str.split('.')[1])
DecimalPlaces(val) ==
    FractionDigits(Rat(val.v.n - (val.v.n \div val.v.d) * val.v.d, val.v.d), 0)

\* '.' in val_str: the fixed-point rendering of a finite float has a point
HasPoint(val) == isfinite(val)

\* a comparison written the wrong way round: values != val
EqMask_NotEqual(values, val) == [i \in DOMAIN values |-> ~FloatEq(values[i], val)]

\* values == val
EqMask(values, val) == [i \in DOMAIN values |-> FloatEq(values[i], val)]

\* a precision test that lets the frequent values of normal precision go
MarksValue_HighPrecisionOnly(val, precision_threshold) ==
    /\ notna(val)
    /\ HasPoint(val)
    /\ DecimalPlaces(val) >= precision_threshold

\* lines 310-321: whether the loop body ORs the rows of val into the mask;
\* both branches of the precision test do
MarksValue(val, precision_threshold) ==
    /\ notna(val)
    /\ HasPoint(val)
    /\ IF DecimalPlaces(val) >= precision_threshold THEN TRUE ELSE TRUE

detect_suspicious_duplicates(d, column, min_occurrences, precision_threshold) ==
    IF column \notin d.cols THEN FalseMask(d.rows)
    ELSE
    LET suspicious == FalseMask(d.rows)
        values == to_float_series(ColumnOf(d.rows, column))
        frequent_values == FrequentValues(value_counts(values), min_occurrences)
    IN  [i \in 1..Len(d.rows) |->
           [suspicious[i] EXCEPT !.v =
               @ \/ \E val \in frequent_values :
                       /\ MarksValue(val, precision_threshold)
                       /\ EqMask(values, val)[i]]]

DupCells ==
    {Num(Rat(123456, 100000)), Num(Rat(15, 10)), Num(FromInt(2)),
     NumStr(FromInt(2)), Text, NaN}

TablesDup ==
    UNION {
      UNION { {[cols |-> {col},
                rows |-> [i \in 1..n |-> [idx |-> i - 1, c |-> cs[i]]]] :
                 cs \in [1..n -> [{col} -> DupCells]]} : n \in 0..MaxRowsDup }
      : col \in Columns }

MinOccurrences == {1, 2, 3}

PrecisionThresholds == {1, 4}

InitDup ==
    /\ df \in TablesDup
    /\ pc = "ready"
    /\ args = [column |-> "", min_occurrences |-> 0, precision_threshold |-> 0]
    /\ ret = << >>
    /\ ret2 = << >>
    /\ locals = [imputed_raw |-> None]
    /\ via = ""
    /\ st_error = FALSE
    /\ app_df = EmptyTable

Detect(column, min_occurrences, precision_threshold) ==
    /\ pc = "ready"
    /\ pc' = "detected"
    /\ args' = [column |-> column, min_occurrences |-> min_occurrences,
                precision_threshold |-> precision_threshold]
    /\ ret' = detect_suspicious_duplicates(df, column, min_occurrences,
                                           precision_threshold)
    /\ UNCHANGED <<df, ret2, locals, via, st_error, app_df>>

NextDup ==
    \E column \in Columns, min_occurrences \in MinOccurrences,
       precision_threshold \in PrecisionThresholds :
       Detect(column, min_occurrences, precision_threshold)

SpecDup == InitDup /\ [][NextDup]_vars

Detected == pc = "detected"

\* the rows of the input whose coerced value equals that of row i
SameValueRows(i) ==
    {j \in InRows : InCell(j).k = "num" /\ InCell(j).v = InCell(i).v}

C16_MaskShapeAndMissing ==
    Detected =>
        /\ Len(ret) = Len(df.rows)
        /\ \A i \in InRows : ret[i].idx = df.rows[i].idx /\ ret[i].v \in BOOLEAN
        /\ ColumnPresent => \A i \in InRows : IsMissing(i) => ~ret[i].v
        /\ ~ColumnPresent => \A i \in InRows : ~ret[i].v

C16_Witness ==
    /\ Detected /\ ColumnPresent
    /\ args.min_occurrences = 2
    /\ Len(df.rows) = 4
    /\ df.rows[1].c[args.column] = NaN
    /\ df.rows[2].c[args.column] = NaN
    /\ df.rows[3].c[args.column] = Text
    /\ df.rows[4].c[args.column] = Text
    /\ \A i \in InRows : ~ret[i].v

----------------------------------------------------------------------------
(* Float arithmetic of the scorers.  A float is a cell Num(r) or NaN; NaN  *)
(* propagates through every operation.  The square root is rounded down to *)
(* a multiple of 1/SqrtScale, as the float square root is rounded to the   *)
(* precision of a double.                                                  *)

SqrtScale == 1000

RSub(a, b) == Rat(a.n * b.d - b.n * a.d, a.d * b.d)

RMul(a, b) == Rat(a.n * b.n, a.d * b.d)

\* a / b for b # 0
RDiv(a, b) ==
    IF b.n > 0 THEN Rat(a.n * b.d, a.d * b.n) ELSE Rat(-(a.n * b.d), a.d * (-b.n))

RECURSIVE Bisect(_, _, _)
Bisect(x, lo, hi) ==
    IF hi - lo <= 1 THEN lo
    ELSE LET mid == (lo + hi) \div 2
         IN  IF mid * mid <= x THEN Bisect(x, mid, hi) ELSE Bisect(x, lo, mid)

\* the integer square root of x >= 0
ISqrt(x) == Bisect(x, 0, 46341)

Sqrt(q) == Rat(ISqrt((q.n * SqrtScale * SqrtScale) \div q.d), SqrtScale)

FSub(x, y) == IF x.k = "num" /\ y.k = "num" THEN Num(RSub(x.v, y.v)) ELSE NaN

FMul(x, y) == IF x.k = "num" /\ y.k = "num" THEN Num(RMul(x.v, y.v)) ELSE NaN

FAdd(x, y) == IF x.k = "num" /\ y.k = "num" THEN Num(RAdd(x.v, y.v)) ELSE NaN

\* x / y for y # 0
FDiv(x, y) == IF x.k = "num" /\ y.k = "num" THEN Num(RDiv(x.v, y.v)) ELSE NaN

\* Series.abs() on one cell
FAbs(x) == IF x.k = "num" THEN Num([x.v EXCEPT !.n = Abs(x.v.n)]) ELSE NaN

\* Series.fillna(0.0) on one cell
fillna0(x) == IF notna(x) THEN x ELSE Num(Zero)

\* a comparison the wrong way round: a <= b
FloatGe_Reversed(a, b) == FloatLe(a, b)

\* a >= b on floats: False when either side is NaN
FloatGe(a, b) == FloatLe(b, a)

\* the non-missing cells of a series, in order
DropNa(s) == SelectRows(s, [i \in DOMAIN s |-> notna(s[i])])

\* Series.mean(), skipna: NaN when no value is present
MeanSkipNa(s) == IF Len(DropNa(s)) = 0 THEN NaN ELSE Num(Mean(DropNa(s)))

\* Series.max(), skipna: NaN when no value is present
RECURSIVE MaxSeq(_)
MaxSeq(s) ==
    IF Len(s) = 1 THEN Head(s)
    ELSE LET m == MaxSeq(Tail(s))
         IN  IF RLe(m.v, Head(s).v) THEN Head(s) ELSE m

MaxSkipNa(s) == IF Len(DropNa(s)) = 0 THEN NaN ELSE MaxSeq(DropNa(s))

RECURSIVE MinSeq(_)
MinSeq(s) ==
    IF Len(s) = 1 THEN Head(s)
    ELSE LET m == MinSeq(Tail(s))
         IN  IF RLe(Head(s).v, m.v) THEN Head(s) ELSE m

\* Series.std(ddof=0), skipna: the population standard deviation
StdPop(s) ==
    IF Len(DropNa(s)) = 0 THEN NaN
    ELSE LET xs == DropNa(s)
             m == Mean(xs)
             sq == [i \in DOMAIN xs |-> Num(RMul(RSub(xs[i].v, m), RSub(xs[i].v, m)))]
         IN  Num(Sqrt(Mean(sq)))

\* Python max(a, b) of two floats: b if b > a, else a (so a NaN a is returned)
PyMax(a, b) == IF FloatLe(a, b) /\ ~FloatLe(b, a) THEN b ELSE a

----------------------------------------------------------------------------
(* helpers.isolation_forest_scores, category_amount_zscores, flag_anomalies *)

NUMERIC_CANDIDATES ==
    <<"claim_amount", "policy_premium", "annual_income", "age", "tenure_months">>

\* the pivots tried by flag_anomalies, in the order of the loop
CategoryPivots == <<"claim_type", "policy_type", "state", "region">>

Range(f) == {f[i] : i \in DOMAIN f}

\* a normalisation measured from the minimum: the most normal row scores 1
NormalizeDecision_FromMin(decision) ==
    IF Len(decision) = 0 THEN << >>
    ELSE LET dec_min == MinSeq(decision)
             dec_max == MaxSeq(decision)
         IN  IF dec_max = dec_min
             THEN [i \in DOMAIN decision |-> Num(Zero)]
             ELSE [i \in DOMAIN decision |->
                     FDiv(FSub(decision[i], dec_min), FSub(dec_max, dec_min))]

\* lines 89-93: min-max normalisation of the decision values of one batch
NormalizeDecision(decision) ==
    IF Len(decision) = 0 THEN << >>
    ELSE LET dec_min == MinSeq(decision)
             dec_max == MaxSeq(decision)
         IN  IF dec_max = dec_min
             THEN [i \in DOMAIN decision |-> Num(Zero)]
             ELSE [i \in DOMAIN decision |->
                     FDiv(FSub(dec_max, decision[i]), FSub(dec_max, dec_min))]

\* decision holds the values model.decision_function(X) returns for the rows
isolation_forest_scores(d, decision) ==
    IF Range(NUMERIC_CANDIDATES) \cap d.cols = {}
    THEN [i \in 1..Len(d.rows) |-> Num(Zero)]
    ELSE NormalizeDecision(decision)

\* zscore(s) of lines 99-104 for the member x of the group s
zscore(s, x) ==
    LET m == MeanSkipNa(s)
        sd == StdPop(s)
    IN  IF sd = Num(Zero) \/ ~notna(sd)
        THEN FMul(FSub(x, m), Num(Zero))
        ELSE FDiv(FSub(x, m), sd)

\* the amounts of the rows that share the category of row i, in row order
GroupOf(rows, category_col, amount_col, i) ==
    SelectRows(ColumnOf(rows, amount_col),
               [j \in 1..Len(rows) |->
                   rows[j].c[category_col] = rows[i].c[category_col]])

category_amount_zscores(d, category_col, amount_col) ==
    IF amount_col \notin d.cols \/ category_col \notin d.cols
    THEN [i \in 1..Len(d.rows) |-> NaN]
    ELSE [i \in 1..Len(d.rows) |->
            zscore(GroupOf(d.rows, category_col, amount_col, i),
                   d.rows[i].c[amount_col])]

\* the mean that forgets to take absolute values
RowDeviation_Signed(zs) == MeanSkipNa(zs)

\* pd.concat(zcomponents, axis=1).mean(axis=1) on the z-scores zs of one row
RowDeviation(zs) == MeanSkipNa([k \in DOMAIN zs |-> FAbs(zs[k])])

\* lines 113-121: the column anomaly_z
AnomalyZ(d) ==
    LET present == SelectRows(CategoryPivots,
                              [k \in DOMAIN CategoryPivots |-> CategoryPivots[k] \in d.cols])
        z == [k \in DOMAIN present |-> category_amount_zscores(d, present[k], "claim_amount")]
    IN  IF Len(present) > 0
        THEN [i \in 1..Len(d.rows) |-> RowDeviation([k \in DOMAIN present |-> z[k][i]])]
        ELSE [i \in 1..Len(d.rows) |-> Num(Zero)]

\* a blend that always divides by the batch maximum, however small
RiskScore_NoFloor(iforest, z, zmax, iforest_weight, zscore_weight) ==
    FAdd(FMul(Num(iforest_weight), fillna0(iforest)),
         FMul(Num(zscore_weight),
              IF zmax = Num(Zero) THEN NaN ELSE FDiv(fillna0(z), zmax)))

\* lines 124-125
RiskScore(iforest, z, zmax, iforest_weight, zscore_weight) ==
    FAdd(FMul(Num(iforest_weight), fillna0(iforest)),
         FMul(Num(zscore_weight), FDiv(fillna0(z), PyMax(zmax, Num(FromInt(1))))))

\* the em dash that marks a row with no reason
EmptyMarker == "--"

\* sep.join(r), as the sequence of the pieces of the resulting text
RECURSIVE Join(_, _)
Join(sep, r) ==
    IF Len(r) = 0 THEN << >>
    ELSE IF Len(r) = 1 THEN r
    ELSE <<Head(r), sep>> \o Join(sep, Tail(r))

\* the reasons appended in the opposite order
RiskReason_DeviationFirst(iforest, z, z_threshold, score_threshold) ==
    LET r == (IF FloatGe(z, Num(z_threshold))
              THEN <<"Category z-score high">> ELSE << >>)
             \o (IF FloatGe(iforest, Num(score_threshold))
                 THEN <<"IsolationForest outlier">> ELSE << >>)
    IN  IF Len(r) > 0 THEN Join(", ", r) ELSE <<EmptyMarker>>

\* lines 130-135
RiskReason(iforest, z, z_threshold, score_threshold) ==
    LET r == (IF FloatGe(iforest, Num(score_threshold))
              THEN <<"IsolationForest outlier">> ELSE << >>)
             \o (IF FloatGe(z, Num(z_threshold))
                 THEN <<"Category z-score high">> ELSE << >>)
    IN  IF Len(r) > 0 THEN Join(", ", r) ELSE <<EmptyMarker>>

\* a flag taken on the normalised deviation instead of the raw one
Flagged_Normalized(iforest, z, zmax, z_threshold, score_threshold) ==
    \/ FloatGe(iforest, Num(score_threshold))
    \/ FloatGe(FDiv(fillna0(z), PyMax(zmax, Num(FromInt(1)))), Num(z_threshold))

\* line 139 (zmax, the batch maximum of anomaly_z, is not used by it)
Flagged(iforest, z, zmax, z_threshold, score_threshold) ==
    \/ FloatGe(iforest, Num(score_threshold))
    \/ FloatGe(z, Num(z_threshold))

\* out[name] = s: the series s stored as the tuple of its cells
StoreColumn(s) == s \o << >>

flag_anomalies(d, decision, iforest_weight, zscore_weight, z_threshold, score_threshold) ==
    LET anomaly_iforest ==
            StoreColumn([i \in 1..Len(d.rows) |->
                            fillna0(isolation_forest_scores(d, decision)[i])])
        anomaly_z == StoreColumn(AnomalyZ(d))
        zmax == MaxSkipNa(anomaly_z)
    IN  [cols |-> d.cols \cup {"anomaly_iforest", "anomaly_z", "risk_score",
                               "risk_reason", "flagged"},
         rows |-> [i \in 1..Len(d.rows) |->
            [idx |-> d.rows[i].idx,
             c |-> [anomaly_iforest |-> anomaly_iforest[i],
                    anomaly_z |-> anomaly_z[i],
                    risk_score |-> RiskScore(anomaly_iforest[i], anomaly_z[i], zmax,
                                             iforest_weight, zscore_weight),
                    risk_reason |-> RiskReason(anomaly_iforest[i], anomaly_z[i],
                                               z_threshold, score_threshold),
                    flagged |-> Flagged(anomaly_iforest[i], anomaly_z[i], zmax,
                                        z_threshold, score_threshold)]
                   @@ d.rows[i].c]]]

----------------------------------------------------------------------------
(* Specification SpecScore: one call of flag_anomalies on a loaded table.  *)
(* The decision values of the fitted IsolationForest are an input.         *)

\* the i-th category label, a text that is no number
CatText(i) == [k |-> "text", v |-> FromInt(i)]

\* the column sets of the scored tables: both pivots, one pivot, no amount,
\* no pivot
ScoreColumnSets ==
    {{"claim_amount", "claim_type", "state"}, {"claim_amount", "claim_type"},
     {"claim_type", "state"}, {"claim_amount"}}

\* the cells a column may hold in the row labelled i; the state alternates
ScoreCells(col, i) ==
    CASE col = "claim_amount" -> {Num(FromInt(0)), Num(FromInt(2)), NaN}
      [] col = "claim_type" -> {CatText(1), CatText(2)}
      [] OTHER -> {CatText(1 + (i % 2))}

ScoreRowCells(cols, i) ==
    {c \in [cols -> UNION {ScoreCells(col, i) : col \in cols}] :
        \A col \in cols : c[col] \in ScoreCells(col, i)}

\* scored tables have at least one row (IsolationForest is fitted on them)
TablesScore ==
    UNION {
      UNION { {[cols |-> cols,
                rows |-> [i \in 1..n |-> [idx |-> i - 1, c |-> cs[i]]]] :
                 cs \in {f \in [1..n -> UNION {ScoreRowCells(cols, j) : j \in 0..n}] :
                           \A i \in 1..n : f[i] \in ScoreRowCells(cols, i - 1)}}
              : n \in 1..MaxRowsScore }
      : cols \in ScoreColumnSets }

\* the decision values of a batch of n rows: all rows alike; the first row the
\* most abnormal; the first row the most abnormal and the second in between
DecisionSeqs(n) ==
    {[i \in 1..n |-> Num(Rat(1, 10))],
     [i \in 1..n |-> IF i = 1 THEN Num(Rat(-1, 10)) ELSE Num(Rat(1, 10))],
     [i \in 1..n |-> IF i = 1 THEN Num(Rat(-1, 10))
                     ELSE IF i = 2 THEN Num(Zero) ELSE Num(Rat(1, 10))]}

\* <<z_threshold, score_threshold>>: thresholds within reach, the defaults of
\* flag_anomalies, and thresholds out of reach
ThresholdPairs ==
    {<<Rat(12, 10), Rat(65, 100)>>, <<Rat(25, 10), Rat(65, 100)>>,
     <<Rat(25, 10), Rat(11, 10)>>}

\* the default weights of flag_anomalies
IForestWeight == Rat(6, 10)

ZScoreWeight == Rat(4, 10)

\* the z-scores category_amount_zscores returns for each pivot in the table
ZComponents(d) ==
    [cat \in Range(CategoryPivots) \cap d.cols |->
        category_amount_zscores(d, cat, "claim_amount")]

InitScore ==
    /\ df \in TablesScore
    /\ pc = "ready"
    /\ args = [decision |-> << >>, z_threshold |-> Zero, score_threshold |-> Zero]
    /\ ret = EmptyTable
    /\ ret2 = << >>
    /\ locals = [zcomponents |-> << >>]
    /\ via = ""
    /\ st_error = FALSE
    /\ app_df = EmptyTable

Score(decision, z_threshold, score_threshold) ==
    /\ pc = "ready"
    /\ pc' = "scored"
    /\ args' = [decision |-> decision, z_threshold |-> z_threshold,
                score_threshold |-> score_threshold]
    /\ ret' = flag_anomalies(df, decision, IForestWeight, ZScoreWeight,
                             z_threshold, score_threshold)
    /\ locals' = [zcomponents |-> ZComponents(df)]
    /\ UNCHANGED <<df, ret2, via, st_error, app_df>>

NextScore ==
    \E decision \in DecisionSeqs(Len(df.rows)), t \in ThresholdPairs :
       Score(decision, t[1], t[2])

SpecScore == InitScore /\ [][NextScore]_vars

----------------------------------------------------------------------------
(* Claims about the scorers, checked under SpecScore.                      *)

Scored == pc = "scored"

\* the rows that share the category of row i in the pivot cat
PartitionOf(cat, i) ==
    {j \in 1..Len(df.rows) : df.rows[j].c[cat] = df.rows[i].c[cat]}

\* the amounts present in the partition of row i
PresentAmounts(cat, i) ==
    {df.rows[j].c["claim_amount"].v :
        j \in {m \in PartitionOf(cat, i) : notna(df.rows[m].c["claim_amount"])}}

\* one member, or a population standard deviation that is 0 or undefined
Degenerate(cat, i) ==
    \/ Cardinality(PartitionOf(cat, i)) = 1
    \/ Cardinality(PresentAmounts(cat, i)) <= 1

\* C17: every member of a degenerate partition (one member, population
\* standard deviation 0 or undefined) gets the deviation 0 from
\* category_amount_zscores, never NaN, also when its amount is missing.
C17_DegenerateYieldsZero ==
    (Scored /\ "claim_amount" \in df.cols) =>
        \A cat \in DOMAIN locals.zcomponents : \A i \in 1..Len(df.rows) :
            Degenerate(cat, i) => locals.zcomponents[cat][i] = Num(Zero)

\* the candidate category columns the scored table holds
PresentPivots == Range(CategoryPivots) \cap df.cols

\* the z-score of row i within its category of the pivot cat
ZOf(cat, i) == locals.zcomponents[cat][i]

\* the sum of the absolute values of the z-scores of row i over the pivots S
RECURSIVE SumAbsZ(_, _)
SumAbsZ(S, i) ==
    IF S = {} THEN Zero
    ELSE LET cat == CHOOSE x \in S : TRUE
         IN  RAdd([n |-> Abs(ZOf(cat, i).v.n), d |-> ZOf(cat, i).v.d],
                  SumAbsZ(S \ {cat}, i))

OutScore(i) == ret.rows[i].c

\* C18: anomaly_z of a row is the mean of the absolute per-category z-scores
\* over exactly the candidate category columns present in the table (missing
\* when the row has no z-score: its amount is missing or there is no amount
\* column); with no candidate column present it is 0 for every row.
C18_DeviationIsMeanAbs ==
    Scored =>
        \A i \in 1..Len(df.rows) :
            /\ PresentPivots = {} => OutScore(i).anomaly_z = Num(Zero)
            /\ (PresentPivots # {} /\ \A cat \in PresentPivots : notna(ZOf(cat, i)))
                 => OutScore(i).anomaly_z =
                      Num(RDivInt(SumAbsZ(PresentPivots, i), Cardinality(PresentPivots)))
            /\ (PresentPivots # {} /\ \A cat \in PresentPivots : ~notna(ZOf(cat, i)))
                 => OutScore(i).anomaly_z = NaN

\* a row with a negative z-score in one pivot and a nonzero z-score of another
\* magnitude in the other pivot
C18_Witness ==
    /\ Scored
    /\ PresentPivots = {"claim_type", "state"}
    /\ \E i \in 1..Len(df.rows) :
          /\ notna(ZOf("claim_type", i)) /\ notna(ZOf("state", i))
          /\ ZOf("claim_type", i).v.n < 0
          /\ ZOf("state", i).v.n # 0
          /\ ZOf("state", i).v # ZOf("claim_type", i).v
          /\ ZOf("state", i).v # [ZOf("claim_type", i).v EXCEPT !.n = -@]
          /\ OutScore(i).anomaly_z =
               Num(RDivInt(SumAbsZ(PresentPivots, i), 2))

\* cell >= threshold as the code compares floats: false on a missing cell
AtLeast(cell, threshold) == cell.k = "num" /\ RLe(threshold, cell.v)

\* the deviation of row i divided by max(batch maximum, 1), as in risk_score
NormalizedAtLeast(i, threshold) ==
    \E j \in 1..Len(ret.rows) :
        /\ \A m \in 1..Len(ret.rows) :
              notna(OutScore(m).anomaly_z) =>
                  RLe(OutScore(m).anomaly_z.v, OutScore(j).anomaly_z.v)
        /\ notna(OutScore(j).anomaly_z) /\ notna(OutScore(i).anomaly_z)
        /\ LET zmax == OutScore(j).anomaly_z.v
               z == OutScore(i).anomaly_z.v
           IN  IF RLe(zmax, FromInt(1)) THEN RLe(threshold, z)
               ELSE threshold.n * zmax.n * z.d <= z.n * threshold.d * zmax.d

\* C19: in every returned row, flagged is true exactly when anomaly_iforest >=
\* score_threshold or the raw anomaly_z >= z_threshold (the deviation compared
\* is the raw one, not the one normalised by the batch maximum).
C19_FlaggedIsRawDisjunction ==
    Scored =>
        \A i \in 1..Len(ret.rows) :
            OutScore(i).flagged <=>
                \/ AtLeast(OutScore(i).anomaly_iforest, args.score_threshold)
                \/ AtLeast(OutScore(i).anomaly_z, args.z_threshold)

\* a row flagged by its raw deviation alone, whose normalised deviation is
\* below z_threshold
C19_Witness ==
    /\ Scored
    /\ \E i \in 1..Len(ret.rows) :
          /\ OutScore(i).flagged
          /\ ~AtLeast(OutScore(i).anomaly_iforest, args.score_threshold)
          /\ AtLeast(OutScore(i).anomaly_z, args.z_threshold)
          /\ ~NormalizedAtLeast(i, args.z_threshold)

\* the pieces of the reason text of row i
ReasonPieces(i) == Range(OutScore(i).risk_reason)

\* C20: the reason of a returned row is the empty marker exactly when the row
\* is not flagged; it holds "IsolationForest outlier" exactly when
\* anomaly_iforest >= score_threshold and "Category z-score high" exactly when
\* anomaly_z >= z_threshold, joined by ", " in that order when both trigger.
C20_ReasonMatchesFlag ==
    Scored =>
        \A i \in 1..Len(ret.rows) :
            LET outlier == AtLeast(OutScore(i).anomaly_iforest, args.score_threshold)
                high == AtLeast(OutScore(i).anomaly_z, args.z_threshold)
            IN  /\ (OutScore(i).risk_reason = <<EmptyMarker>>) <=> ~OutScore(i).flagged
                /\ ("IsolationForest outlier" \in ReasonPieces(i)) <=> outlier
                /\ ("Category z-score high" \in ReasonPieces(i)) <=> high
                /\ (outlier /\ high) =>
                     OutScore(i).risk_reason =
                        <<"IsolationForest outlier", ", ", "Category z-score high">>
                /\ (outlier /\ ~high) =>
                     OutScore(i).risk_reason = <<"IsolationForest outlier">>
                /\ (~outlier /\ high) =>
                     OutScore(i).risk_reason = <<"Category z-score high">>

\* one batch with a row on which both reasons trigger and a row without reason
C20_Witness ==
    /\ Scored
    /\ \E i, j \in 1..Len(ret.rows) :
          /\ AtLeast(OutScore(i).anomaly_iforest, args.score_threshold)
          /\ AtLeast(OutScore(i).anomaly_z, args.z_threshold)
          /\ Len(OutScore(i).risk_reason) = 3
          /\ ~OutScore(j).flagged
          /\ OutScore(j).risk_reason = <<EmptyMarker>>

----------------------------------------------------------------------------
(* Specification SpecAlias: the three functions called on a table held by  *)
(* the caller.  Tables are objects on a heap (a sequence of tables); a     *)
(* reference is a position of the heap.                                    *)

\* a copy that hands back the object it was given
Copy_Alias(heap, ref) == [heap |-> heap, ref |-> ref]

\* df.copy(): a new object with the rows, columns and cells of heap[ref]
Copy(heap, ref) == [heap |-> Append(heap, heap[ref]), ref |-> Len(heap) + 1]

\* an expression that builds a new table t (out[mask], pd.Series(...))
Alloc(heap, t) == [heap |-> Append(heap, t), ref |-> Len(heap) + 1]

\* an assignment into the object ref (out[column] = ..., out.loc[...] = ...)
Store(heap, ref, t) == [heap EXCEPT ![ref] = t]

\* handle_numeric_outliers on the object ref; out is the object returned
handle_numeric_outliers_at(heap, ref, column, method, min_val, max_val, round_to_int) ==
    LET c == Copy(heap, ref)
        d == c.heap[c.ref]
        r == handle_numeric_outliers(d, column, method, min_val, max_val, round_to_int)
    IN  IF column \notin d.cols THEN [heap |-> c.heap, out |-> c.ref]
        ELSE IF r.affected > 0 /\ method = "exclude"
        THEN LET coerced ==
                     Store(c.heap, c.ref,
                           [d EXCEPT !.rows =
                               SetColumn(d.rows, column,
                                         to_float_series(ColumnOf(d.rows, column)))])
                 sel == Alloc(coerced, r.df)
                 c2 == Copy(sel.heap, sel.ref)
             IN  [heap |-> c2.heap, out |-> c2.ref]
        ELSE [heap |-> Store(c.heap, c.ref, r.df), out |-> c.ref]

\* flag_anomalies on the object ref; out is the object returned
flag_anomalies_at(heap, ref, decision, z_threshold, score_threshold) ==
    LET c == Copy(heap, ref)
    IN  [heap |-> Store(c.heap, c.ref,
                        flag_anomalies(c.heap[c.ref], decision, IForestWeight,
                                       ZScoreWeight, z_threshold, score_threshold)),
         out |-> c.ref]

\* detect_suspicious_duplicates on the object ref: it reads the table and
\* returns a mask, which is no table (out is 0)
detect_suspicious_duplicates_at(heap, ref, column, min_occurrences, precision_threshold) ==
    [heap |-> heap, out |-> 0,
     mask |-> detect_suspicious_duplicates(heap[ref], column, min_occurrences,
                                           precision_threshold)]

AliasColumnSets == {{"age"}, {"claim_amount", "claim_type"}}

AliasCells(col) ==
    CASE col = "age" -> {Num(FromInt(0)), NumStr(FromInt(2)), NaN}
      [] col = "claim_amount" -> {Num(FromInt(0)), Num(FromInt(2)), NaN}
      [] OTHER -> {CatText(1), CatText(2)}

AliasRowCells(cols) ==
    {c \in [cols -> UNION {AliasCells(col) : col \in cols}] :
        \A col \in cols : c[col] \in AliasCells(col)}

TablesAlias ==
    UNION {
      UNION { {[cols |-> cols,
                rows |-> [i \in 1..n |-> [idx |-> i - 1, c |-> cs[i]]]] :
                 cs \in [1..n -> AliasRowCells(cols)]}
              : n \in 1..MaxRowsAlias }
      : cols \in AliasColumnSets }

\* the columns named in the calls; each is absent from some tables
AliasColumns == {"age", "claim_amount"}

\* df is the caller's table as it was before the call; locals.caller is the
\* object the caller holds
InitAlias ==
    /\ df \in TablesAlias
    /\ pc = "ready"
    /\ via = ""
    /\ args = << >>
    /\ ret = EmptyTable
    /\ ret2 = << >>
    /\ locals = [heap |-> <<df>>, caller |-> 1, out |-> 0]
    /\ st_error = FALSE
    /\ app_df = EmptyTable

CallClean(column, method, round_to_int) ==
    /\ pc = "ready"
    /\ pc' = "returned"
    /\ via' = "handle_numeric_outliers"
    /\ args' = <<column, method, round_to_int>>
    /\ LET r == handle_numeric_outliers_at(locals.heap, locals.caller, column, method,
                                           Num(FromInt(1)), Num(FromInt(2)),
                                           round_to_int)
       IN  /\ locals' = [heap |-> r.heap, caller |-> locals.caller, out |-> r.out]
           /\ ret' = r.heap[r.out]
    /\ UNCHANGED <<df, ret2, st_error, app_df>>

CallDetect(column, min_occurrences, precision_threshold) ==
    /\ pc = "ready"
    /\ pc' = "returned"
    /\ via' = "detect_suspicious_duplicates"
    /\ args' = <<column, min_occurrences, precision_threshold>>
    /\ LET r == detect_suspicious_duplicates_at(locals.heap, locals.caller, column,
                                                min_occurrences, precision_threshold)
       IN  /\ locals' = [heap |-> r.heap, caller |-> locals.caller, out |-> r.out]
           /\ ret' = r.mask
    /\ UNCHANGED <<df, ret2, st_error, app_df>>

CallScore(decision, z_threshold, score_threshold) ==
    /\ pc = "ready"
    /\ pc' = "returned"
    /\ via' = "flag_anomalies"
    /\ args' = <<decision, z_threshold, score_threshold>>
    /\ LET r == flag_anomalies_at(locals.heap, locals.caller, decision, z_threshold,
                                  score_threshold)
       IN  /\ locals' = [heap |-> r.heap, caller |-> locals.caller, out |-> r.out]
           /\ ret' = r.heap[r.out]
    /\ UNCHANGED <<df, ret2, st_error, app_df>>

NextAlias ==
    \/ \E column \in AliasColumns, method \in Methods, round_to_int \in BOOLEAN :
          CallClean(column, method, round_to_int)
    \/ \E column \in AliasColumns, min_occurrences \in MinOccurrences,
          precision_threshold \in PrecisionThresholds :
          CallDetect(column, min_occurrences, precision_threshold)
    \/ \E decision \in DecisionSeqs(Len(df.rows)), t \in ThresholdPairs :
          CallScore(decision, t[1], t[2])

SpecAlias == InitAlias /\ [][NextAlias]_vars

Returned == pc = "returned"

\* the table the caller holds, as it is now
CallerTable == locals.heap[locals.caller]

\* C12: handle_numeric_outliers, detect_suspicious_duplicates and
\* flag_anomalies never mutate the table passed by the caller: after the call
\* the caller's table has the rows, columns and cells it had before, and the
\* result is a separate object.
C12_CallerTableUntouched ==
    Returned => /\ CallerTable = df
                /\ locals.out # locals.caller

\* a cleaning that imputed: the returned table differs from the caller's, which
\* is as it was
C12_Witness ==
    /\ Returned
    /\ via = "handle_numeric_outliers"
    /\ args[2] = "impute_mean"
    /\ locals.out # locals.caller
    /\ ret.cols = df.cols
    /\ ret # df
    /\ CallerTable = df

----------------------------------------------------------------------------
(* Further claims about flag_anomalies, checked under SpecScore.           *)

\* the rows of the scored batch whose anomaly_z is defined
DefinedRows == {i \in 1..Len(ret.rows) : notna(OutScore(i).anomaly_z)}

\* the largest defined anomaly_z of the batch (DefinedRows # {})
BatchMax ==
    LET j == CHOOSE j \in DefinedRows :
                 \A m \in DefinedRows :
                     RLe(OutScore(m).anomaly_z.v, OutScore(j).anomaly_z.v)
    IN  OutScore(j).anomaly_z.v

\* the divisor D: the batch maximum if it is at least 1, else 1
Divisor == IF RLe(FromInt(1), BatchMax) THEN BatchMax ELSE FromInt(1)

C22_RiskScoreInUnitInterval ==
    Scored =>
        \A i \in 1..Len(ret.rows) :
            /\ notna(OutScore(i).risk_score)
            /\ RLe(Zero, OutScore(i).risk_score.v)
            /\ RLe(OutScore(i).risk_score.v, FromInt(1))

\* the decision values were used: a candidate numeric column is present
HasNumeric == Range(NUMERIC_CANDIDATES) \cap df.cols # {}

Decision(i) == args.decision[i].v

DecMax == Decision(CHOOSE j \in 1..Len(df.rows) :
                      \A m \in 1..Len(df.rows) : RLe(Decision(m), Decision(j)))

DecMin == Decision(CHOOSE j \in 1..Len(df.rows) :
                      \A m \in 1..Len(df.rows) : RLe(Decision(j), Decision(m)))

IForest(i) == OutScore(i).anomaly_iforest

C24_MissingAmountColumnScoresZero ==
    (Scored /\ PresentPivots # {} /\ "claim_amount" \notin df.cols) =>
        \A i \in 1..Len(ret.rows) :
            /\ OutScore(i).anomaly_z = Num(Zero)
            /\ ~AtLeast(OutScore(i).anomaly_z, args.z_threshold)
            /\ OutScore(i).risk_score = Num(RMul(IForestWeight, IForest(i).v))

\* no row can reach the thresholds of the call
Unreachable ==
    /\ ~RLe(args.score_threshold, FromInt(1))
    /\ \A i \in 1..Len(ret.rows) : ~AtLeast(OutScore(i).anomaly_z, args.z_threshold)

\* C26: with a score_threshold above 1 and a z_threshold above every row's
\* deviation, no row is flagged and every reason is the empty marker.
C26_UnreachableThresholdsFlagNothing ==
    (Scored /\ Unreachable) =>
        \A i \in 1..Len(ret.rows) :
            /\ ~OutScore(i).flagged
            /\ OutScore(i).risk_reason = <<EmptyMarker>>

\* unreachable thresholds on a batch with a row of outlier score 1 and
\* deviation above 1
C26_Witness ==
    /\ Scored /\ Unreachable
    /\ \E i \in DefinedRows :
          /\ IForest(i) = Num(FromInt(1))
          /\ ~RLe(OutScore(i).anomaly_z.v, FromInt(1))
          /\ ~OutScore(i).flagged

----------------------------------------------------------------------------
(* Specification SpecScoreText: flag_anomalies on a table whose candidate  *)
(* numeric column may hold a cell that is no number.                       *)

\* the exception float() raises on a text that is no number
ValueError == [k |-> "ValueError", v |-> Zero]

\* .astype(float) on one cell of an object column
astype_float(x) ==
    CASE x.k = "num" -> x
      [] x.k = "str" -> Num(x.v)
      [] x.k = "nan" -> NaN
      [] OTHER -> ValueError

\* line 83: X = df[num_cols].fillna(0.0).astype(float).values
FeatureMatrix(d) ==
    [i \in 1..Len(d.rows) |->
        [col \in Range(NUMERIC_CANDIDATES) \cap d.cols |->
            astype_float(fillna0(d.rows[i].c[col]))]]

\* flag_anomalies with the exception of line 83 propagating to the caller
flag_anomalies_raising(d, decision, z_threshold, score_threshold) ==
    LET X == FeatureMatrix(d)
    IN  IF \E i \in DOMAIN X : \E col \in DOMAIN X[i] : X[i][col] = ValueError
        THEN [raised |-> TRUE, df |-> EmptyTable, X |-> X]
        ELSE [raised |-> FALSE,
              df |-> flag_anomalies(d, decision, IForestWeight, ZScoreWeight,
                                    z_threshold, score_threshold),
              X |-> X]

TextColumnSets == {{"claim_amount", "claim_type"}, {"age"}}

TextCells(col) ==
    IF col = "claim_type" THEN {CatText(1), CatText(2)}
    ELSE {Num(FromInt(0)), Num(FromInt(2)), NaN, Text}

TextRowCells(cols) ==
    {c \in [cols -> UNION {TextCells(col) : col \in cols}] :
        \A col \in cols : c[col] \in TextCells(col)}

TablesText ==
    UNION {
      UNION { {[cols |-> cols,
                rows |-> [i \in 1..n |-> [idx |-> i - 1, c |-> cs[i]]]] :
                 cs \in [1..n -> TextRowCells(cols)]}
              : n \in 1..MaxRowsText }
      : cols \in TextColumnSets }

InitScoreText ==
    /\ df \in TablesText
    /\ pc = "ready"
    /\ args = [decision |-> << >>, z_threshold |-> Zero, score_threshold |-> Zero]
    /\ ret = [raised |-> FALSE, df |-> EmptyTable, X |-> << >>]
    /\ ret2 = << >>
    /\ locals = << >>
    /\ via = ""
    /\ st_error = FALSE
    /\ app_df = EmptyTable

ScoreText(decision, z_threshold, score_threshold) ==
    /\ pc = "ready"
    /\ pc' = "scored"
    /\ args' = [decision |-> decision, z_threshold |-> z_threshold,
                score_threshold |-> score_threshold]
    /\ ret' = flag_anomalies_raising(df, decision, z_threshold, score_threshold)
    /\ UNCHANGED <<df, ret2, locals, via, st_error, app_df>>

NextScoreText ==
    \E decision \in DecisionSeqs(Len(df.rows)), t \in ThresholdPairs :
       ScoreText(decision, t[1], t[2])

SpecScoreText == InitScoreText /\ [][NextScoreText]_vars

\* C25: a cell of a candidate numeric column that is no number is no error in
\* scoring: it is treated as missing (feature value 0.0) and a scored table
\* with every row is returned; nothing is raised.
C25_UnparsableCellIsMissing ==
    Scored =>
        /\ ~ret.raised
        /\ Len(ret.df.rows) = Len(df.rows)
        /\ \A i \in 1..Len(df.rows) :
              \A col \in Range(NUMERIC_CANDIDATES) \cap df.cols :
                  df.rows[i].c[col].k = "text" => ret.X[i][col] = Num(Zero)

----------------------------------------------------------------------------
(* helpers.coalesce_columns.  A header is a sequence of tokens: words,     *)
(* blanks " " and underscores "_".  A frame is the sequence of its columns *)
(* [name, data], data naming the column of the input the cells come from.  *)

\* str.lower() on one token
LowerToken(t) ==
    CASE t = "Amount" -> "amount"
      [] t = "Claim" -> "claim"
      [] t = "Income" -> "income"
      [] OTHER -> t

\* str.strip(): leading and trailing blanks removed
RECURSIVE strip(_)
strip(h) ==
    IF Len(h) = 0 THEN h
    ELSE IF Head(h) = " " THEN strip(Tail(h))
    ELSE IF h[Len(h)] = " " THEN strip(SubSeq(h, 1, Len(h) - 1))
    ELSE h

lower(h) == [j \in 1..Len(h) |-> LowerToken(h[j])]

\* str.replace(" ", "_")
replace(h) == [j \in 1..Len(h) |-> IF h[j] = " " THEN "_" ELSE h[j]]

\* line 17: c.strip().lower().replace(" ", "_")
NormalizeHeader(h) == replace(lower(strip(h)))

\* lines 20-58, in the order of the dict: <<old, new>>
alias_map ==
  <<
    <<<<"total", "_", "claim", "_", "amount">>,
      <<"claim", "_", "amount">>>>,
    <<<<"total", "_", "claim", "_", "value">>,
      <<"claim", "_", "amount">>>>,
    <<<<"claim", "_", "value">>,
      <<"claim", "_", "amount">>>>,
    <<<<"amount">>,
      <<"claim", "_", "amount">>>>,
    <<<<"coverage", "_", "amount">>,
      <<"claim", "_", "amount">>>>,
    <<<<"premium">>,
      <<"policy", "_", "premium">>>>,
    <<<<"policy", "_", "annual", "_", "premium">>,
      <<"policy", "_", "premium">>>>,
    <<<<"premium", "_", "amount">>,
      <<"policy", "_", "premium">>>>,
    <<<<"education">>,
      <<"customer", "_", "education">>>>,
    <<<<"education", "_", "level">>,
      <<"customer", "_", "education">>>>,
    <<<<"salary">>,
      <<"annual", "_", "income">>>>,
    <<<<"income">>,
      <<"annual", "_", "income">>>>,
    <<<<"income", "_", "level">>,
      <<"annual", "_", "income">>>>,
    <<<<"state", "_", "code">>,
      <<"state">>>>,
    <<<<"location">>,
      <<"state">>>>,
    <<<<"geographic", "_", "information">>,
      <<"region">>>>,
    <<<<"customer", "_", "id">>,
      <<"claim", "_", "id">>>>,
    <<<<"customer", "_", "lifetime", "_", "value">>,
      <<"lifetime", "_", "value">>>>,
    <<<<"customer", "_", "value">>,
      <<"lifetime", "_", "value">>>>,
    <<<<"months", "_", "since", "_", "policy", "_", "inception">>,
      <<"tenure", "_", "months">>>>,
    <<<<"policy", "_", "tenure">>,
      <<"tenure", "_", "months">>>>,
    <<<<"marital", "_", "status">>,
      <<"marital", "_", "status">>>>,
    <<<<"claim", "_", "history">>,
      <<"previous", "_", "claims">>>>,
    <<<<"previous", "_", "claims", "_", "history">>,
      <<"previous", "_", "claims">>>>
  >>

ColumnNames(cols) == {cols[j].name : j \in 1..Len(cols)}

\* a rename that does not look whether the new name is taken
RenameStep_Unguarded(cols, old, new) ==
    IF old \in ColumnNames(cols)
    THEN [j \in 1..Len(cols) |->
            IF cols[j].name = old THEN [cols[j] EXCEPT !.name = new] ELSE cols[j]]
    ELSE cols

\* lines 60-61: one turn of the loop over alias_map
RenameStep(cols, old, new) ==
    IF old \in ColumnNames(cols) /\ new \notin ColumnNames(cols)
    THEN [j \in 1..Len(cols) |->
            IF cols[j].name = old THEN [cols[j] EXCEPT !.name = new] ELSE cols[j]]
    ELSE cols

\* the loop of lines 59-61 from the k-th entry of alias_map on
RECURSIVE RenameFrom(_, _)
RenameFrom(cols, k) ==
    IF k > Len(alias_map) THEN cols
    ELSE RenameFrom(RenameStep(cols, alias_map[k][1], alias_map[k][2]), k + 1)

coalesce_columns(cols) ==
    RenameFrom([j \in 1..Len(cols) |->
                   [cols[j] EXCEPT !.name = NormalizeHeader(cols[j].name)]], 1)

----------------------------------------------------------------------------
(* Specification SpecCoalesce: coalesce_columns on the headers of a loaded *)
(* file.                                                                   *)

\* raw headers of uploaded files
HeaderPool ==
    {<<"Amount">>, <<" ", "amount">>, <<"Claim", " ", "Amount">>,
     <<"claim", "_", "value">>, <<"salary">>, <<"Income">>,
     <<"annual", "_", "income">>, <<"age">>}

\* frames with distinct raw headers
Frames ==
    UNION { {[j \in 1..n |-> [name |-> hs[j], data |-> j]] :
               hs \in {f \in [1..n -> HeaderPool] :
                         \A a, b \in 1..n : a # b => f[a] # f[b]}}
            : n \in 1..MaxCols }

InitCoalesce ==
    /\ df \in Frames
    /\ pc = "ready"
    /\ ret = << >>
    /\ args = << >>
    /\ ret2 = << >>
    /\ locals = << >>
    /\ via = ""
    /\ st_error = FALSE
    /\ app_df = EmptyTable

Coalesce ==
    /\ pc = "ready"
    /\ pc' = "coalesced"
    /\ ret' = coalesce_columns(df)
    /\ UNCHANGED <<df, args, ret2, locals, via, st_error, app_df>>

NextCoalesce == Coalesce

SpecCoalesce == InitCoalesce /\ [][NextCoalesce]_vars

Coalesced == pc = "coalesced"

\* the normalised header of the j-th input column
NormIn(j) == NormalizeHeader(df[j].name)

DistinctNormalised ==
    \A a, b \in 1..Len(df) : a # b => NormIn(a) # NormIn(b)

\* the entries of alias_map that lead from the header h to the name c
AliasEntries(h, c) == {k \in 1..Len(alias_map) : alias_map[k] = <<h, c>>}

\* the j-th column was renamed
Renamed(j) == ret[j].name # NormIn(j)

----------------------------------------------------------------------------
(* Specification SpecApp: one run of the app script on a loaded table, from *)
(* the detection preview of the sidebar to the final scoring.  df is the    *)
(* table as loaded and coalesced, app_df the script's variable df, ret the  *)
(* variable df_f, ret2 the calls of flag_anomalies made so far.             *)

\* line 103: the columns offered as filters, in the order of the loop
FilterColumns == <<"policy_type", "claim_type", "region", "state">>

\* lines 102-106: filter_cols, the filter columns the loaded table has
filter_cols(d) == Range(FilterColumns) \cap d.cols

\* line 104: the values offered for a filter column
FilterVals(d, col) == {d.rows[i].c[col] : i \in 1..Len(d.rows)}

\* the selections the multiselects of line 105 can return
Selections(d) ==
    {sel \in [filter_cols(d) -> SUBSET UNION {FilterVals(d, col) : col \in filter_cols(d)}] :
        \A col \in filter_cols(d) : sel[col] \subseteq FilterVals(d, col)}

\* lines 239-243
IncomeCol(d) ==
    IF "annual_income" \in d.cols THEN "annual_income"
    ELSE IF "salary" \in d.cols THEN "salary"
    ELSE ""

DuplicateMethods == {"Flag only", "Exclude rows", "Ignore"}

\* the slider value of line 195, scaled down like the bounds ColMin, ColMax
DupThreshold == 2

\* the precision_threshold default of detect_suspicious_duplicates
PrecisionDefault == 4

\* lines 263-271: the table after the duplicate handling
HandleDuplicates(d, duplicates_method) ==
    IF duplicates_method # "Ignore" /\ IncomeCol(d) # ""
    THEN LET has_duplicates ==
                 detect_suspicious_duplicates(d, IncomeCol(d), DupThreshold,
                                              PrecisionDefault)
         IN  IF duplicates_method = "Exclude rows"
             THEN [d EXCEPT !.rows =
                      SelectRows(d.rows, [i \in 1..Len(d.rows) |-> ~has_duplicates[i].v])]
             ELSE d
    ELSE d

\* the labels of the rows of d
Labels(d) == {d.rows[i].idx : i \in 1..Len(d.rows)}

\* df[col].isin(sel) at the row labelled l
IsinAt(d, col, vals, l) ==
    \E i \in 1..Len(d.rows) : d.rows[i].idx = l /\ d.rows[i].c[col] \in vals

\* lines 280-283: mask = pd.Series([True] * len(df)) has the labels
\* 0..len(df)-1; mask &= s aligns s to these labels, a label s lacks giving
\* False
FilterMask(d, sel) ==
    [l \in 0..(Len(d.rows) - 1) |->
        \A col \in DOMAIN sel :
            col \in d.cols => (l \in Labels(d) /\ IsinAt(d, col, sel[col], l))]

\* line 284, df[mask]: pandas raises IndexingError (unalignable boolean
\* Series) when a row label of df is no label of mask
Unalignable(d, mask) == \E l \in Labels(d) : l \notin DOMAIN mask

\* lines 279-286: df_f, or the exception
ApplyFilters(d, sel) ==
    IF DOMAIN sel # {}
    THEN LET mask == FilterMask(d, sel)
         IN  IF Unalignable(d, mask)
             THEN [raised |-> TRUE, df_f |-> EmptyTable]
             ELSE [raised |-> FALSE,
                   df_f |-> [d EXCEPT !.rows =
                               SelectRows(d.rows,
                                          [i \in 1..Len(d.rows) |-> mask[d.rows[i].idx]])]]
    ELSE [raised |-> FALSE, df_f |-> d]

AppColumnSets == {{"age", "claim_type"}, {"annual_income", "claim_type"}, {"age"}}

AppCells(col) ==
    CASE col = "age" -> {Num(FromInt(0)), Num(FromInt(1)), NaN}
      [] col = "annual_income" -> {Num(FromInt(0)), Num(FromInt(1))}
      [] OTHER -> {CatText(1), CatText(2)}

AppRowCells(cols) ==
    {c \in [cols -> UNION {AppCells(col) : col \in cols}] :
        \A col \in cols : c[col] \in AppCells(col)}

\* a loaded table has the RangeIndex 0..n-1 as row labels
TablesApp ==
    UNION {
      UNION { {[cols |-> cols,
                rows |-> [i \in 1..n |-> [idx |-> i - 1, c |-> cs[i]]]] :
                 cs \in [1..n -> AppRowCells(cols)]}
              : n \in 1..MaxRowsApp }
      : cols \in AppColumnSets }

InitApp ==
    /\ df \in TablesApp
    /\ app_df = df
    /\ pc = "loaded"
    /\ ret = EmptyTable
    /\ ret2 = << >>
    /\ locals = << >>
    /\ args = << >>
    /\ via = ""
    /\ st_error = FALSE

\* a call flag_anomalies(table, ...) made when the script was at position at
ScoringCall(site, table) == [site |-> site, table |-> table, at |-> pc]

\* line 122: the detection preview of the sidebar
PreviewScore ==
    /\ pc = "loaded"
    /\ pc' = "previewed"
    /\ ret2' = Append(ret2, ScoringCall("preview", app_df))
    /\ UNCHANGED <<df, app_df, ret, locals, args, via, st_error>>

\* lines 229-237
CleanAgeStep(age_method) ==
    /\ pc = "previewed"
    /\ pc' = "age_cleaned"
    /\ app_df' = CleanColumn(app_df, "age", method_map(age_method)).df
    /\ UNCHANGED <<df, ret, ret2, locals, args, via, st_error>>

\* lines 239-261
CleanIncomeStep(income_method) ==
    /\ pc = "age_cleaned"
    /\ pc' = "income_cleaned"
    /\ app_df' = IF IncomeCol(app_df) # ""
                 THEN CleanColumn(app_df, IncomeCol(app_df),
                                  method_map(income_method)).df
                 ELSE app_df
    /\ UNCHANGED <<df, ret, ret2, locals, args, via, st_error>>

\* lines 263-271
DuplicatesStep(duplicates_method) ==
    /\ pc = "income_cleaned"
    /\ pc' = "cleaned"
    /\ app_df' = HandleDuplicates(app_df, duplicates_method)
    /\ UNCHANGED <<df, ret, ret2, locals, args, via, st_error>>

\* lines 279-286; an exception ends the run of the script
FilterStep(sel) ==
    /\ pc = "cleaned"
    /\ locals' = sel
    /\ LET r == ApplyFilters(app_df, sel)
       IN  /\ pc' = IF r.raised THEN "crashed" ELSE "filtered"
           /\ via' = IF r.raised THEN "IndexingError" ELSE via
           /\ ret' = r.df_f
    /\ UNCHANGED <<df, app_df, ret2, args, st_error>>

\* line 388
VizScore ==
    /\ pc = "filtered"
    /\ pc' = "visualized"
    /\ ret2' = Append(ret2, ScoringCall("visualization", ret))
    /\ UNCHANGED <<df, app_df, ret, locals, args, via, st_error>>

\* line 583
FinalScore ==
    /\ pc = "visualized"
    /\ pc' = "done"
    /\ ret2' = Append(ret2, ScoringCall("shortlist", ret))
    /\ UNCHANGED <<df, app_df, ret, locals, args, via, st_error>>

NextApp ==
    \/ PreviewScore
    \/ \E age_method \in MethodLabels : CleanAgeStep(age_method)
    \/ \E income_method \in MethodLabels : CleanIncomeStep(income_method)
    \/ \E duplicates_method \in DuplicateMethods : DuplicatesStep(duplicates_method)
    \/ \E sel \in Selections(df) : FilterStep(sel)
    \/ VizScore
    \/ FinalScore

SpecApp == InitApp /\ [][NextApp]_vars

\* the positions of the script at which the cleaning steps are over
AfterCleaning == {"cleaned", "filtered", "visualized"}

\* C28: every call of flag_anomalies of a run (preview, visualization,
\* shortlist) is made after the age/income cleaning and the duplicate
\* handling, and receives a cleaned table, never the table as loaded.
C28_ScoringAfterCleaning ==
    \A k \in 1..Len(ret2) :
        /\ ret2[k].at \in AfterCleaning
        /\ \A i \in 1..Len(ret2[k].table.rows) :
              \E j \in 1..Len(app_df.rows) : ret2[k].table.rows[i] = app_df.rows[j]

Filtered == pc \in {"filtered", "crashed"}

\* the cleaned row i passes the filters selected
Passes(i) ==
    \A col \in DOMAIN locals : app_df.rows[i].c[col] \in locals[col]

\* C29: the filter step keeps every cleaned row whose value in each filter
\* column is selected, whatever rows were removed before: df_f exists and
\* holds exactly these rows, in order; with every value selected df_f has the
\* rows of the cleaned table.
C29_FilterKeepsSelectedRows ==
    Filtered =>
        /\ pc # "crashed"
        /\ ret.rows = SelectRows(app_df.rows,
                                 [i \in 1..Len(app_df.rows) |-> Passes(i)])
        /\ (\A i \in 1..Len(app_df.rows) : Passes(i)) => ret.rows = app_df.rows

----------------------------------------------------------------------------
(* Specification SpecInstall: main() of update_quality_toggles.py.  df is  *)
(* the two files on disk, app_df the files as they were before the run,    *)
(* ret the backups, locals the patched texts computed so far, pc the       *)
(* number of the next step, via how the run stands, ret2 the steps done.   *)

FileNames == {"helpers.py", "app.py"}

\* a file that does not exist
Missing == [text |-> 0, patched |-> FALSE]

\* a file content truncated by a write that failed
Truncated == [text |-> 0, patched |-> TRUE]

FileTexts == {[text |-> t, patched |-> FALSE] : t \in 1..MaxTexts}

\* patch_helpers / patch_app: the patched text of a source text
Patched(src) == [src EXCEPT !.patched = TRUE]

\* an installer that patches and writes helpers.py before it turns to app.py
MainSteps_FileByFile ==
    <<[op |-> "validate", file |-> ""],
      [op |-> "backup", file |-> "helpers.py"],
      [op |-> "patch", file |-> "helpers.py"],
      [op |-> "write", file |-> "helpers.py"],
      [op |-> "backup", file |-> "app.py"],
      [op |-> "patch", file |-> "app.py"],
      [op |-> "write", file |-> "app.py"]>>

\* lines 470-489: the steps of main() in order
MainSteps ==
    <<[op |-> "validate", file |-> ""],
      [op |-> "backup", file |-> "helpers.py"],
      [op |-> "backup", file |-> "app.py"],
      [op |-> "patch", file |-> "helpers.py"],
      [op |-> "patch", file |-> "app.py"],
      [op |-> "write", file |-> "helpers.py"],
      [op |-> "write", file |-> "app.py"]>>

Running == via = "running" /\ pc \in 1..Len(MainSteps)

NextStep == MainSteps[pc]

NoFile == [f \in FileNames |-> Missing]

InitInstall ==
    /\ df \in [FileNames -> FileTexts \cup {Missing}]
    /\ app_df = df
    /\ ret = NoFile
    /\ locals = NoFile
    /\ pc = 1
    /\ via = "running"
    /\ ret2 = << >>
    /\ args = << >>
    /\ st_error = FALSE

\* the step is done and the run goes on, or is over after the last step
Advance ==
    /\ pc' = pc + 1
    /\ via' = IF pc = Len(MainSteps) THEN "done" ELSE "running"
    /\ ret2' = Append(ret2, NextStep)

\* the step raised: main() prints the error and re-raises (lines 511-514)
Fail ==
    /\ pc' = pc
    /\ via' = "failed"
    /\ ret2' = ret2

\* validate_files (lines 34-41): SystemExit unless both files exist
Validate ==
    /\ Running /\ NextStep.op = "validate"
    /\ IF \A f \in FileNames : df[f] # Missing THEN Advance ELSE Fail
    /\ UNCHANGED <<df, app_df, ret, locals, args, st_error>>

\* backup (lines 43-49): shutil.copyfile to a timestamped .bak file
Backup ==
    /\ Running /\ NextStep.op = "backup"
    /\ df[NextStep.file] # Missing
    /\ ret' = [ret EXCEPT ![NextStep.file] = df[NextStep.file]]
    /\ Advance
    /\ UNCHANGED <<df, app_df, locals, args, st_error>>

\* copyfile raises (a file that is missing, a disk that is full)
BackupFails ==
    /\ Running /\ NextStep.op = "backup"
    /\ Fail
    /\ UNCHANGED <<df, app_df, ret, locals, args, st_error>>

\* patch_helpers / patch_app (lines 218-231, 447-457): read the file and
\* compute the patched text
Patch ==
    /\ Running /\ NextStep.op = "patch"
    /\ df[NextStep.file] # Missing
    /\ locals' = [locals EXCEPT ![NextStep.file] = Patched(df[NextStep.file])]
    /\ Advance
    /\ UNCHANGED <<df, app_df, ret, args, st_error>>

\* a patch function raises
PatchFails ==
    /\ Running /\ NextStep.op = "patch"
    /\ Fail
    /\ UNCHANGED <<df, app_df, ret, locals, args, st_error>>

\* Path.write_text (lines 485, 488)
Write ==
    /\ Running /\ NextStep.op = "write"
    /\ df' = [df EXCEPT ![NextStep.file] = locals[NextStep.file]]
    /\ Advance
    /\ UNCHANGED <<app_df, ret, locals, args, st_error>>

\* write_text raises: the file is left as it was or truncated
WriteFails ==
    /\ Running /\ NextStep.op = "write"
    /\ \E left \in {df[NextStep.file], Truncated} :
          df' = [df EXCEPT ![NextStep.file] = left]
    /\ Fail
    /\ UNCHANGED <<app_df, ret, locals, args, st_error>>

NextInstall ==
    \/ Validate
    \/ Backup
    \/ BackupFails
    \/ Patch
    \/ PatchFails
    \/ Write
    \/ WriteFails

SpecInstall == InitInstall /\ [][NextInstall]_vars

\* a write to helpers.py or app.py has been attempted
WriteAttempted ==
    \/ \E k \in 1..Len(ret2) : ret2[k].op = "write"
    \/ via = "failed" /\ NextStep.op = "write"

\* the run failed in validation, backup or patching
FailedBeforeWriting ==
    via = "failed" /\ NextStep.op \in {"validate", "backup", "patch"}

\* C30: before the first write to helpers.py or app.py both files have been
\* copied to their backup and both patched texts have been computed; if
\* validation, backup or patching fails, neither file has been modified.
C30_BackupsBeforeWrites ==
    /\ (WriteAttempted \/ df # app_df) =>
          \A f \in FileNames :
              /\ ret[f] = app_df[f] /\ ret[f] # Missing
              /\ locals[f] = Patched(app_df[f])
    /\ FailedBeforeWriting => df = app_df

\* helpers.py has been written while app.py still has its original text, both
\* backups holding the originals
C30_Witness ==
    /\ via = "running"
    /\ df["helpers.py"] = Patched(app_df["helpers.py"])
    /\ df["app.py"] = app_df["app.py"]
    /\ \A f \in FileNames : ret[f] = app_df[f] /\ ret[f] # Missing

====
